---- MODULE Spec2Model ----
(***************************************************************************)
(* EasyBackUp (src/backup_script.py): the BackupManager object, its rule   *)
(* lists, the traversal of the home directory, size accounting, the choice *)
(* of a destination drive, the capacity check and the construction of the  *)
(* zip archive.                                                            *)
(*                                                                         *)
(* Strings that the program inspects character by character (file and      *)
(* directory basenames, rule-file lines, patterns) are sequences of        *)
(* one-character strings, so that lower(), strip(), startswith(),          *)
(* Path.suffix and fnmatch are computed and not assumed.                   *)
(***************************************************************************)
EXTENDS Integers, Sequences, FiniteSets, TLC

VARIABLES
    extensions,       \* self.extensions: list of lowercase suffixes
    blacklist,        \* self.blacklist: list of lowercase patterns
    pc,               \* position of run_backup / create_backup_archive
    stack,            \* os.walk: directories still to be listed, next first
    visited,          \* directories whose contents os.walk has listed
    denied,           \* directories whose listing raised PermissionError
    files_to_backup,  \* the candidate list built by find_files_to_backup
    size_i,           \* calculate_total_size: index of the next candidate
    total_size,       \* calculate_total_size: running / returned sum
    external_drives,  \* find_external_drives(): free bytes of each drive found
    selected_drive,   \* 1-based index of the chosen drive, 0 = none yet
    free_space,       \* free bytes of the chosen drive, as enumerated
    compression,      \* chosen zipfile compression constant, "none" = not yet
    reprompts,        \* how many times a prompt was repeated
    archive,          \* the zip file on the drive: "absent", "open", "closed"
    entries,          \* archive entries (relative paths), in write order
    failed,           \* candidates whose write printed the per-file warning
    arch_i,           \* create_backup_archive: index of the next candidate
    interrupted,      \* where a KeyboardInterrupt was delivered, "no" = never
    success,          \* create_backup_archive's return: "None", "True", "False"
    log,              \* run-level messages printed, in order
    exit_code,        \* process exit status
    q_name,           \* argument of a stand-alone _is_blacklisted call
    q_result,         \* its result, once pc = "answered"
    walk1,            \* the list an earlier find_files_to_backup call returned
    skipped,          \* indices of the candidates whose stat raised
    confirm           \* the normalised answer to the confirmation prompt

vars == <<extensions, blacklist, pc, stack, visited, denied, files_to_backup,
          size_i, total_size, external_drives, selected_drive, free_space,
          compression, reprompts, archive, entries, failed, arch_i,
          interrupted, success, log, exit_code, q_name, q_result, walk1,
          skipped, confirm>>

-----------------------------------------------------------------------------
(* Bounds of the model *)

\* longest basename / pattern drawn for the stand-alone matcher
MaxLen == 3
\* most patterns in a blacklist drawn for the stand-alone matcher
MaxPatterns == 1
\* most drives find_external_drives reports
MaxDrives == 2
\* largest free-byte count a drive reports
MaxFree == 1
\* most times one prompt is repeated after an out-of-range answer
MaxReprompts == 1

-----------------------------------------------------------------------------
(* Strings *)

\* str.lower() on one character
LowerChar(c) ==
    CASE c = "A" -> "a"
      [] c = "B" -> "b"
      [] c = "J" -> "j"
      [] c = "T" -> "t"
      [] OTHER -> c

\* str.lower()
Lower(s) == [i \in 1..Len(s) |-> LowerChar(s[i])]

RECURSIVE LStrip(_)
\* the leading half of str.strip(): drop leading blanks
LStrip(s) ==
    IF s # <<>> /\ Head(s) = " " THEN LStrip(Tail(s)) ELSE s

RECURSIVE RStrip(_)
\* the trailing half of str.strip(): drop trailing blanks
RStrip(s) ==
    IF s # <<>> /\ s[Len(s)] = " " THEN RStrip(SubSeq(s, 1, Len(s) - 1)) ELSE s

\* str.strip()
Strip(s) == LStrip(RStrip(s))

RECURSIVE RStripStar(_)
\* pattern.rstrip('*')
RStripStar(s) ==
    IF s # <<>> /\ s[Len(s)] = "*" THEN RStripStar(SubSeq(s, 1, Len(s) - 1)) ELSE s

\* s.startswith(p)
StartsWith(s, p) ==
    /\ Len(p) <= Len(s)
    /\ SubSeq(s, 1, Len(p)) = p

\* '*' in pattern
HasStar(p) == \E i \in 1..Len(p) : p[i] = "*"

\* x in list
InList(x, list) == \E i \in 1..Len(list) : list[i] = x

RECURSIVE FnMatch(_, _)
\* fnmatch.fnmatch(name, pattern) for patterns built from literals, '*' and
\* '?': '*' matches any run of characters, '?' exactly one.
FnMatch(name, pat) ==
    IF pat = <<>> THEN name = <<>>
    ELSE IF Head(pat) = "*"
         THEN \/ FnMatch(name, Tail(pat))
              \/ name # <<>> /\ FnMatch(Tail(name), pat)
    ELSE IF name = <<>> THEN FALSE
    ELSE /\ Head(pat) = "?" \/ Head(pat) = Head(name)
         /\ FnMatch(Tail(name), Tail(pat))

\* Path(...).suffix: the final component's last extension, dot included;
\* empty when there is no dot, the only dot leads the name, or the name
\* ends with a dot.
RECURSIVE LastDot(_)
LastDot(s) ==
    IF s = <<>> THEN 0
    ELSE IF s[Len(s)] = "." THEN Len(s)
    ELSE LastDot(SubSeq(s, 1, Len(s) - 1))

Suffix(name) ==
    LET i == LastDot(name)
    IN  IF 1 < i /\ i < Len(name) THEN SubSeq(name, i, Len(name)) ELSE <<>>

Range(s) == {s[i] : i \in 1..Len(s)}

-----------------------------------------------------------------------------
(* Rule lists *)

\* A rule file: whether it exists, and its lines
RuleFile(lines) == [exists |-> TRUE, lines |-> lines]
NoFile == [exists |-> FALSE, lines |-> <<>>]

\* line 33-34: the stripped line is kept when it is non-empty, is no comment
\* and starts with a dot
ExtLineOk(line) ==
    LET l == Strip(line)
    IN  l # <<>> /\ Head(l) # "#" /\ Head(l) = "."

RECURSIVE LoadExtLines(_)
\* the loop of _load_extensions over the lines of the file
LoadExtLines(lines) ==
    IF lines = <<>> THEN <<>>
    ELSE IF ExtLineOk(Head(lines))
         THEN <<Lower(Strip(Head(lines)))>> \o LoadExtLines(Tail(lines))
    ELSE LoadExtLines(Tail(lines))

\* BackupManager._load_extensions
_load_extensions(file) ==
    IF ~file.exists THEN <<>> ELSE LoadExtLines(file.lines)

\* line 47-48: the stripped line is kept when it is non-empty and no comment
BlLineOk(line) ==
    LET l == Strip(line)
    IN  l # <<>> /\ Head(l) # "#"

RECURSIVE LoadBlLines(_)
\* the loop of _load_blacklist over the lines of the file
LoadBlLines(lines) ==
    IF lines = <<>> THEN <<>>
    ELSE IF BlLineOk(Head(lines))
         THEN <<Lower(Strip(Head(lines)))>> \o LoadBlLines(Tail(lines))
    ELSE LoadBlLines(Tail(lines))

\* BackupManager._load_blacklist
_load_blacklist(file) ==
    IF ~file.exists THEN <<>> ELSE LoadBlLines(file.lines)

\* one pass of the loop at lines 64-70, for one pattern
PatternHits(name_lower, pattern) ==
    IF HasStar(pattern) THEN FnMatch(name_lower, pattern)
    ELSE StartsWith(name_lower, RStripStar(pattern))

\* variant: the name is compared as given, without line 57's lower()
IsBlacklistedIn_caseSensitive(name, list) ==
    \/ InList(name, list)
    \/ \E i \in 1..Len(list) : PatternHits(name, list[i])

\* BackupManager._is_blacklisted, against a given list
IsBlacklistedIn(name, list) ==
    LET name_lower == Lower(name)
    IN  \/ InList(name_lower, list)
        \/ \E i \in 1..Len(list) : PatternHits(name_lower, list[i])

\* BackupManager._is_blacklisted
_is_blacklisted(name) == IsBlacklistedIn(name, blacklist)

-----------------------------------------------------------------------------
(* The home directory tree the traversal runs over *)

\* self.home_dir
Home == "~"

Dirs == {"~", "~/T", "~/T/b", "~/ab"}

\* basename of a directory below the home directory
DirName(d) ==
    CASE d = "~/T"   -> <<"T">>
      [] d = "~/T/b" -> <<"b">>
      [] d = "~/ab"  -> <<"a", "b">>

\* parent directory of a directory below the home directory
Parent(d) ==
    CASE d = "~/T"   -> "~"
      [] d = "~/T/b" -> "~/T"
      [] d = "~/ab"  -> "~"

\* the subdirectories os.walk lists in a directory, in listing order
SubDirs(d) ==
    CASE d = "~"   -> <<"~/T", "~/ab">>
      [] d = "~/T" -> <<"~/T/b">>
      [] OTHER     -> <<>>

\* the file basenames os.walk lists in a directory, in listing order
FileNames(d) ==
    CASE d = "~"     -> << <<"a", ".", "j">>, <<"a", ".", "j", ".", "x">> >>
      [] d = "~/T"   -> << <<"a", ".", "j">> >>
      [] d = "~/T/b" -> << <<"b", ".", "J">> >>
      [] d = "~/ab"  -> << <<"t", ".", "j">> >>

\* Path(root) / file
PathOf(d, name) == [dir |-> d, name |-> name]

AllFiles ==
    UNION {{PathOf(d, FileNames(d)[i]) : i \in 1..Len(FileNames(d))} : d \in Dirs}

\* st_size of a file
SizeOf(f) ==
    CASE f = PathOf("~", <<"a", ".", "j">>)     -> 1
      [] f = PathOf("~", <<"a", ".", "j", ".", "x">>) -> 2
      [] f = PathOf("~/T", <<"a", ".", "j">>)   -> 1
      [] f = PathOf("~/T/b", <<"b", ".", "J">>) -> 0
      [] f = PathOf("~/ab", <<"t", ".", "j">>)  -> 1

RECURSIVE DirParts(_)
\* the components of a directory's path below the home directory
DirParts(d) ==
    IF d = Home THEN <<>> ELSE DirParts(Parent(d)) \o <<DirName(d)>>

\* file_path.relative_to(self.home_dir)
RelativeTo(f) == DirParts(f.dir) \o <<f.name>>

RECURSIVE Ancestors(_)
\* a directory and every directory above it, up to the home directory
Ancestors(d) ==
    IF d = Home THEN {Home} ELSE {d} \cup Ancestors(Parent(d))

\* the rule files the program may find in its working directory
ExtensionFiles ==
    { NoFile,
      RuleFile(<< <<"#", "x">>, <<"j">>, <<>> >>),
      RuleFile(<< <<".", "t">>, <<"#", ".", "x">>, <<".", "j">> >>),
      RuleFile(<< <<".", "t">>, <<" ", ".", "J", " ">> >>) }

BlacklistFiles ==
    { NoFile,
      RuleFile(<< <<"#", "a">>, <<" ", "T">> >>),
      RuleFile(<< <<"t", "*">> >>),
      RuleFile(<< <<"a">> >>),
      RuleFile(<< <<"x">>, <<"*", "b">> >>) }

-----------------------------------------------------------------------------
(* Messages run_backup, create_backup_archive and main print *)

MsgNoExtensions    == "no extension list"          \* line 212
MsgNoFiles         == "no files found"             \* line 224
MsgNoDrives        == "no external drives"         \* line 237
MsgCancelled       == "operation cancelled"        \* lines 257, 283
MsgNoSpace         == "not enough space"           \* line 262
MsgCancelledByUser == "cancelled by user"          \* lines 163, 195
MsgArchiveCreated  == "archive created"            \* line 198
MsgArchiveError    == "error creating archive"     \* line 202
MsgBackupDone      == "backup completed"           \* line 291
MsgBackupFailed    == "backup failed"              \* line 296
MsgInterrupted     == "interrupted by user"        \* line 303
MsgUnexpected      == "unexpected error"           \* line 305

-----------------------------------------------------------------------------
(* Initial state: a constructed BackupManager, run_backup not yet started *)

Idle ==
    /\ pc = "start"
    /\ stack = <<>>
    /\ visited = {}
    /\ denied = {}
    /\ files_to_backup = <<>>
    /\ size_i = 0
    /\ total_size = 0
    /\ external_drives = <<>>
    /\ selected_drive = 0
    /\ free_space = 0
    /\ compression = "none"
    /\ reprompts = 0
    /\ archive = "absent"
    /\ entries = <<>>
    /\ failed = <<>>
    /\ arch_i = 0
    /\ interrupted = "no"
    /\ success = "None"
    /\ log = <<>>
    /\ exit_code = 0
    /\ walk1 = <<>>
    /\ skipped = {}
    /\ confirm = <<"?">>

\* BackupManager.__init__
Init ==
    /\ \E ef \in ExtensionFiles : extensions = _load_extensions(ef)
    /\ \E bf \in BlacklistFiles : blacklist = _load_blacklist(bf)
    /\ Idle
    /\ q_name = <<>>
    /\ q_result = FALSE

-----------------------------------------------------------------------------
(* run_backup: precondition and traversal *)

\* variant: the test of line 211 never fires
NoExtensions_never(exts) == FALSE

\* line 211: not self.extensions
NoExtensions(exts) == Len(exts) = 0

\* run_backup, lines 210-222: refuse to run without extensions, else start
\* find_files_to_backup
CheckExtensions ==
    /\ pc = "start"
    /\ IF NoExtensions(extensions)
       THEN /\ log' = Append(log, MsgNoExtensions)
            /\ pc' = "done"
            /\ stack' = stack
       ELSE /\ log' = log
            /\ pc' = "discovering"
            /\ stack' = <<Home>>
    /\ UNCHANGED <<extensions, blacklist, visited, denied, files_to_backup,
                   size_i, total_size, external_drives, selected_drive,
                   free_space, compression, reprompts, archive, entries,
                   failed, arch_i, interrupted, success, exit_code, q_name, walk1, skipped,
                   confirm,
                   q_result>>

\* variant: dirs is left as listed
KeepDir_all(d) == TRUE

\* line 82: a listed subdirectory stays in dirs when it is not blacklisted
KeepDir(d) == ~_is_blacklisted(DirName(d))

RECURSIVE KeptDirs(_)
\* line 82: dirs[:] = [d for d in dirs if not self._is_blacklisted(d)]
KeptDirs(dirs) ==
    IF dirs = <<>> THEN <<>>
    ELSE IF KeepDir(Head(dirs)) THEN <<Head(dirs)>> \o KeptDirs(Tail(dirs))
    ELSE KeptDirs(Tail(dirs))

\* variant: an extension of the list anywhere in the name is enough
IsCandidate_substring(name) ==
    /\ ~_is_blacklisted(name)
    /\ \E i \in 1..Len(extensions) :
           \E k \in 1..Len(name) :
               StartsWith(SubSeq(Lower(name), k, Len(name)), extensions[i])

\* lines 86-90: a listed file is a candidate when its basename is not
\* blacklisted and its lowercased suffix is in the extension list
IsCandidate(name) ==
    /\ ~_is_blacklisted(name)
    /\ InList(Lower(Suffix(name)), extensions)

RECURSIVE Candidates(_, _)
\* lines 84-91: the candidates appended for one listed directory
Candidates(d, names) ==
    IF names = <<>> THEN <<>>
    ELSE IF IsCandidate(Head(names))
         THEN <<PathOf(d, Head(names))>> \o Candidates(d, Tail(names))
    ELSE Candidates(d, Tail(names))

\* variant: the listing error leaves the loop through the handler of
\* lines 96-97, and the pending directories are dropped
AfterListError_abort(rest) == <<>>

\* line 80: os.walk with the default onerror: a directory whose listing
\* fails is skipped and the walk goes on with the directories still pending
AfterListError(rest) == rest

\* lines 80-94: the directory at the head of the walk is listed and its
\* candidates appended, or os.walk could not list it
ListDir(listable) ==
    LET d == Head(stack)
        rest == Tail(stack)
    IN  IF listable
        THEN /\ visited' = visited \cup {d}
             /\ denied' = denied
             /\ stack' = KeptDirs(SubDirs(d)) \o rest
             /\ files_to_backup' =
                    files_to_backup \o Candidates(d, FileNames(d))
        ELSE /\ denied' = denied \cup {d}
             /\ visited' = visited
             /\ stack' = AfterListError(rest)
             /\ files_to_backup' = files_to_backup

\* find_files_to_backup, lines 80-94: one iteration of the os.walk loop, or
\* one directory os.walk could not list
WalkStep ==
    /\ pc = "discovering"
    /\ stack # <<>>
    /\ \E listable \in BOOLEAN : ListDir(listable)
    /\ UNCHANGED <<extensions, blacklist, pc, size_i, total_size,
                   external_drives, selected_drive, free_space, compression,
                   reprompts, archive, entries, failed, arch_i, interrupted,
                   success, log, exit_code, q_name, walk1, skipped,
                   confirm, q_result>>

\* variant: sizing starts while directories are still pending
WalkDone_early ==
    /\ pc = "discovering"
    /\ IF files_to_backup = <<>>
       THEN /\ stack = <<>>
            /\ log' = Append(log, MsgNoFiles)
            /\ pc' = "done"
            /\ size_i' = size_i
       ELSE /\ log' = log
            /\ pc' = "sizing"
            /\ size_i' = 1
    /\ UNCHANGED <<extensions, blacklist, stack, visited, denied,
                   files_to_backup, total_size, external_drives,
                   selected_drive, free_space, compression, reprompts,
                   archive, entries, failed, arch_i, interrupted, success,
                   exit_code, q_name, walk1, skipped,
                   confirm, q_result>>

\* lines 99, 222-230: the walk is exhausted; no candidates ends the run, else
\* calculate_total_size starts
WalkDone ==
    /\ pc = "discovering"
    /\ stack = <<>>
    /\ IF files_to_backup = <<>>
       THEN /\ log' = Append(log, MsgNoFiles)
            /\ pc' = "done"
            /\ size_i' = size_i
       ELSE /\ log' = log
            /\ pc' = "sizing"
            /\ size_i' = 1
    /\ UNCHANGED <<extensions, blacklist, stack, visited, denied,
                   files_to_backup, total_size, external_drives,
                   selected_drive, free_space, compression, reprompts,
                   archive, entries, failed, arch_i, interrupted, success,
                   exit_code, q_name, walk1, skipped,
                   confirm, q_result>>

\* variant: a stat error ends the loop
AfterStatError_abort(i) == Len(files_to_backup) + 1

\* lines 111-112: except (OSError, FileNotFoundError): continue
AfterStatError(i) == i + 1

\* lines 107-112: the body of the loop for the candidate at size_i
StatOne(stat_ok) ==
    IF stat_ok
    THEN /\ total_size' = total_size + SizeOf(files_to_backup[size_i])
         /\ size_i' = size_i + 1
    ELSE /\ total_size' = total_size
         /\ size_i' = AfterStatError(size_i)

\* calculate_total_size, lines 106-112: one candidate is measured, or its
\* stat fails and it is skipped
StatFile ==
    /\ pc = "sizing"
    /\ size_i <= Len(files_to_backup)
    /\ \E stat_ok \in BOOLEAN : StatOne(stat_ok)
    /\ UNCHANGED <<extensions, blacklist, pc, stack, visited, denied,
                   files_to_backup, external_drives, selected_drive,
                   free_space, compression, reprompts, archive, entries,
                   failed, arch_i, interrupted, success, log, exit_code,
                   q_name, walk1, skipped, confirm, q_result>>

\* main, lines 302-303: a KeyboardInterrupt delivered during the traversal or
\* the sizing loop reaches main's handler
InterruptEarly ==
    /\ pc \in {"discovering", "sizing"}
    /\ interrupted' = pc
    /\ log' = Append(log, MsgInterrupted)
    /\ pc' = "done"
    /\ UNCHANGED <<extensions, blacklist, stack, visited, denied,
                   files_to_backup, size_i, total_size, external_drives,
                   selected_drive, free_space, compression, reprompts,
                   archive, entries, failed, arch_i, success, exit_code,
                   q_name, walk1, skipped,
                   confirm, q_result>>

-----------------------------------------------------------------------------
(* run_backup: destination, capacity, compression, confirmation *)

\* what find_external_drives may return: a list of drives, each with the
\* free byte count psutil reported for it (lines 133-138); the lists are
\* taken in order of free space, the program treating every position alike
DriveLists ==
    {l \in UNION {[1..n -> 0..MaxFree] : n \in 0..MaxDrives} :
        \A i \in 1..(Len(l) - 1) : l[i] <= l[i + 1]}

\* lines 230-238: calculate_total_size has returned; the drives are
\* enumerated once, and none ends the run
FindExternalDrives ==
    /\ pc = "sizing"
    /\ size_i > Len(files_to_backup)
    /\ \E drives \in DriveLists :
          /\ external_drives' = drives
          /\ IF drives = <<>>
             THEN /\ log' = Append(log, MsgNoDrives)
                  /\ pc' = "done"
             ELSE /\ log' = log
                  /\ pc' = "select_drive"
    /\ UNCHANGED <<extensions, blacklist, stack, visited, denied,
                   files_to_backup, size_i, total_size, selected_drive,
                   free_space, compression, reprompts, archive, entries,
                   failed, arch_i, interrupted, success, exit_code, q_name, walk1, skipped,
                   confirm,
                   q_result>>

\* answers to the drive prompt: text int() rejects, a number, or Ctrl-C
DriveAnswers ==
    {[kind |-> "text", n |-> 0], [kind |-> "interrupt", n |-> 0]} \cup
    {[kind |-> "int", n |-> k] : k \in 0..(MaxDrives + 1)}

\* lines 247-258: one pass of the drive prompt loop
SelectDrive ==
    /\ pc = "select_drive"
    /\ \E answer \in DriveAnswers :
          IF answer.kind = "int"
          THEN LET drive_idx == answer.n - 1
               IN  IF 0 <= drive_idx /\ drive_idx < Len(external_drives)
                   THEN /\ selected_drive' = drive_idx + 1
                        /\ free_space' = external_drives[drive_idx + 1]
                        /\ pc' = "capacity"
                        /\ reprompts' = 0
                        /\ UNCHANGED <<log, interrupted>>
                   ELSE /\ reprompts < MaxReprompts
                        /\ reprompts' = reprompts + 1
                        /\ UNCHANGED <<selected_drive, free_space, pc, log,
                                       interrupted>>
          ELSE /\ log' = Append(log, MsgCancelled)
               /\ pc' = "done"
               /\ interrupted' = IF answer.kind = "interrupt"
                                 THEN "select_drive" ELSE interrupted
               /\ UNCHANGED <<selected_drive, free_space, reprompts>>
    /\ UNCHANGED <<extensions, blacklist, stack, visited, denied,
                   files_to_backup, size_i, total_size, external_drives,
                   compression, archive, entries, failed, arch_i, success,
                   exit_code, q_name, walk1, skipped,
                   confirm, q_result>>

\* variant: an exactly fitting estimate is rejected too
InsufficientSpace_orEqual(free, required) == free <= required

\* variant: the capacity test never fires
InsufficientSpace_never(free, required) == FALSE

\* line 261: free_space < total_size
InsufficientSpace(free, required) == free < required

\* lines 260-267: the capacity check of the selected drive
CapacityCheck ==
    /\ pc = "capacity"
    /\ IF InsufficientSpace(free_space, total_size)
       THEN /\ log' = Append(log, MsgNoSpace)
            /\ pc' = "done"
       ELSE /\ log' = log
            /\ pc' = "compression"
    /\ UNCHANGED <<extensions, blacklist, stack, visited, denied,
                   files_to_backup, size_i, total_size, external_drives,
                   selected_drive, free_space, compression, reprompts,
                   archive, entries, failed, arch_i, interrupted, success,
                   exit_code, q_name, walk1, skipped,
                   confirm, q_result>>

\* answers to the compression prompt, after strip()
CompressionAnswers == {"1", "2", "3", "4", "^C"}

\* variant: a valid choice leaves the method unset
CompressionOf_none(choice) == "none"

\* lines 154-159
CompressionOf(choice) ==
    CASE choice = "1" -> "ZIP_STORED"
      [] choice = "2" -> "ZIP_DEFLATED"
      [] choice = "3" -> "ZIP_LZMA"

\* select_compression_level, lines 151-164: one pass of the prompt loop
SelectCompression ==
    /\ pc = "compression"
    /\ \E choice \in CompressionAnswers :
          IF choice = "^C"
          THEN /\ log' = Append(log, MsgCancelledByUser)
               /\ exit_code' = 1
               /\ interrupted' = "compression"
               /\ pc' = "done"
               /\ UNCHANGED <<compression, reprompts>>
          ELSE IF choice \in {"1", "2", "3"}
          THEN /\ compression' = CompressionOf(choice)
               /\ pc' = "confirm"
               /\ reprompts' = 0
               /\ UNCHANGED <<log, exit_code, interrupted>>
          ELSE /\ reprompts < MaxReprompts
               /\ reprompts' = reprompts + 1
               /\ UNCHANGED <<compression, pc, log, exit_code, interrupted>>
    /\ UNCHANGED <<extensions, blacklist, stack, visited, denied,
                   files_to_backup, size_i, total_size, external_drives,
                   selected_drive, free_space, archive, entries, failed,
                   arch_i, success, q_name, walk1, skipped,
                   confirm, q_result>>

\* answers to the confirmation prompt
ConfirmAnswers ==
    { <<"y">>, <<" ", "Y", " ">>, <<"cyr_de", "cyr_a">>, <<"n">>, <<>>, <<"^C">> }

\* str.lower() on the answer's characters
LowerAnswerChar(c) ==
    CASE c = "Y" -> "y"
      [] c = "E" -> "e"
      [] c = "S" -> "s"
      [] OTHER -> c

\* line 281: confirm = input(...).strip().lower(); "cyr_de" and "cyr_a"
\* stand for the two Cyrillic letters of the accepted answers
Normalised(answer) ==
    [i \in 1..Len(Strip(answer)) |-> LowerAnswerChar(Strip(answer)[i])]

\* variant: an empty answer counts as a yes
Confirmed_emptyIsYes(answer) ==
    Normalised(answer) \in { <<>>, <<"y">>, <<"y", "e", "s">>, <<"cyr_de">>,
                             <<"cyr_de", "cyr_a">> }

\* line 282: confirm in ['y', 'yes', de, de-a]
Confirmed(answer) ==
    Normalised(answer) \in { <<"y">>, <<"y", "e", "s">>, <<"cyr_de">>,
                             <<"cyr_de", "cyr_a">> }

\* lines 281-287 and main 302-303: the confirmation prompt
Confirm ==
    /\ pc = "confirm"
    /\ \E answer \in ConfirmAnswers :
          IF answer = <<"^C">>
          THEN /\ log' = Append(log, MsgInterrupted)
               /\ interrupted' = "confirm"
               /\ pc' = "done"
               /\ UNCHANGED confirm
          ELSE IF Confirmed(answer)
          THEN /\ confirm' = Normalised(answer)
               /\ pc' = "archive_open"
               /\ UNCHANGED <<log, interrupted>>
          ELSE /\ confirm' = Normalised(answer)
               /\ log' = Append(log, MsgCancelled)
               /\ pc' = "done"
               /\ UNCHANGED interrupted
    /\ UNCHANGED <<extensions, blacklist, stack, visited, denied,
                   files_to_backup, size_i, total_size, external_drives,
                   selected_drive, free_space, compression, reprompts,
                   archive, entries, failed, arch_i, success, exit_code,
                   q_name, walk1, skipped, q_result>>

-----------------------------------------------------------------------------
(* create_backup_archive *)

\* line 178: zipfile.ZipFile(output_path, 'w') creates the file on the
\* selected drive, or raises and the handler at lines 201-203 returns False
ArchiveOpen ==
    /\ pc = "archive_open"
    /\ \E opened \in BOOLEAN :
          IF opened
          THEN /\ archive' = "open"
               /\ arch_i' = 1
               /\ pc' = "archiving"
               /\ UNCHANGED <<log, success>>
          ELSE /\ log' = Append(log, MsgArchiveError)
               /\ success' = "False"
               /\ pc' = "report"
               /\ UNCHANGED <<archive, arch_i>>
    /\ UNCHANGED <<extensions, blacklist, stack, visited, denied,
                   files_to_backup, size_i, total_size, external_drives,
                   selected_drive, free_space, compression, reprompts,
                   entries, failed, interrupted, exit_code, q_name, walk1, skipped,
                   confirm, q_result>>

\* what zipf.write(file_path, relative_path) can do for one candidate: add
\* the entry, raise OSError (FileNotFoundError and PermissionError are
\* OSErrors), be interrupted by Ctrl-C, or raise another exception
WriteOutcomes == {"ok", "oserror", "readerror", "interrupt", "error"}

\* lines 191-193: except (OSError, FileNotFoundError): print, continue
AfterOSError(i) == i + 1

\* lines 181-203: one iteration of the loop over the candidates
ArchiveWrite ==
    /\ pc = "archiving"
    /\ arch_i <= Len(files_to_backup)
    /\ LET file_path == files_to_backup[arch_i]
       IN  \E outcome \in WriteOutcomes :
              CASE outcome = "ok" ->
                    /\ entries' = Append(entries, RelativeTo(file_path))
                    /\ arch_i' = arch_i + 1
                    /\ UNCHANGED <<failed, archive, success, log, pc,
                                   interrupted>>
                [] outcome = "oserror" ->
                    \* stat or open of the file raises: ZipFile.write has
                    \* not started the member
                    /\ failed' = Append(failed, file_path)
                    /\ arch_i' = AfterOSError(arch_i)
                    /\ UNCHANGED <<entries, archive, success, log, pc,
                                   interrupted>>
                [] outcome = "readerror" ->
                    \* a read of the file raises while ZipFile.write copies
                    \* it: the member is open by then, and closing it on
                    \* the way out records the entry with the bytes copied
                    \* so far
                    /\ failed' = Append(failed, file_path)
                    /\ entries' = Append(entries, RelativeTo(file_path))
                    /\ arch_i' = AfterOSError(arch_i)
                    /\ UNCHANGED <<archive, success, log, pc, interrupted>>
                [] outcome = "interrupt" ->
                    \* the interrupt arrives before the member is started
                    \* or while it is copied
                    /\ \E started \in BOOLEAN :
                          entries' = IF started
                                     THEN Append(entries, RelativeTo(file_path))
                                     ELSE entries
                    /\ log' = Append(log, MsgCancelledByUser)
                    /\ success' = "False"
                    /\ archive' = "closed"
                    /\ interrupted' = "write"
                    /\ pc' = "report"
                    /\ UNCHANGED <<failed, arch_i>>
                [] outcome = "error" ->
                    /\ log' = Append(log, MsgArchiveError)
                    /\ success' = "False"
                    /\ archive' = "closed"
                    /\ pc' = "report"
                    /\ UNCHANGED <<entries, failed, arch_i, interrupted>>
    /\ UNCHANGED <<extensions, blacklist, stack, visited, denied,
                   files_to_backup, size_i, total_size, external_drives,
                   selected_drive, free_space, compression, reprompts,
                   exit_code, q_name, walk1, skipped,
                   confirm, q_result>>

\* variant: the interrupt is noted and the loop goes on
ArchiveInterruptBetween_ignored ==
    /\ pc = "archiving"
    /\ interrupted = "no"
    /\ interrupted' = "between"
    /\ UNCHANGED <<extensions, blacklist, pc, stack, visited, denied,
                   files_to_backup, size_i, total_size, external_drives,
                   selected_drive, free_space, compression, reprompts,
                   archive, entries, failed, arch_i, success, log,
                   exit_code, q_name, walk1, skipped, confirm, q_result>>

\* a KeyboardInterrupt delivered in the loop but outside the inner try
\* (between two candidates): no handler of create_backup_archive or run_backup
\* catches it, the with statement closes the archive, main prints (line 303)
ArchiveInterruptBetween ==
    /\ pc = "archiving"
    /\ archive' = "closed"
    /\ interrupted' = "between"
    /\ log' = Append(log, MsgInterrupted)
    /\ pc' = "done"
    /\ UNCHANGED <<extensions, blacklist, stack, visited, denied,
                   files_to_backup, size_i, total_size, external_drives,
                   selected_drive, free_space, compression, reprompts,
                   entries, failed, arch_i, success, exit_code, q_name, walk1, skipped,
                   confirm,
                   q_result>>

\* lines 198-203: the loop is over; the message is printed, and leaving the
\* with block closes the archive, or the close raises and the function
\* returns False
ArchiveClose ==
    /\ pc = "archiving"
    /\ arch_i > Len(files_to_backup)
    /\ \E closed \in BOOLEAN :
          IF closed
          THEN /\ archive' = "closed"
               /\ success' = "True"
               /\ log' = Append(log, MsgArchiveCreated)
          ELSE /\ archive' = "damaged"
               /\ success' = "False"
               /\ log' = log \o <<MsgArchiveCreated, MsgArchiveError>>
    /\ pc' = "report"
    /\ UNCHANGED <<extensions, blacklist, stack, visited, denied,
                   files_to_backup, size_i, total_size, external_drives,
                   selected_drive, free_space, compression, reprompts,
                   entries, failed, arch_i, interrupted, exit_code, q_name, walk1, skipped,
                   confirm,
                   q_result>>

\* run_backup lines 289-296 and main lines 304-306: the final report; the
\* compression ratio divides by total_size
Report ==
    /\ pc = "report"
    /\ IF success = "True"
       THEN IF total_size = 0
            THEN /\ log' = log \o <<MsgBackupDone, MsgUnexpected>>
                 /\ exit_code' = 1
            ELSE /\ log' = Append(log, MsgBackupDone)
                 /\ exit_code' = exit_code
       ELSE /\ log' = Append(log, MsgBackupFailed)
            /\ exit_code' = exit_code
    /\ pc' = "done"
    /\ UNCHANGED <<extensions, blacklist, stack, visited, denied,
                   files_to_backup, size_i, total_size, external_drives,
                   selected_drive, free_space, compression, reprompts,
                   archive, entries, failed, arch_i, interrupted, success,
                   q_name, walk1, skipped,
                   confirm, q_result>>

-----------------------------------------------------------------------------
(* The run *)

Next ==
    \/ CheckExtensions
    \/ WalkStep
    \/ WalkDone
    \/ StatFile
    \/ InterruptEarly
    \/ FindExternalDrives
    \/ SelectDrive
    \/ CapacityCheck
    \/ SelectCompression
    \/ Confirm
    \/ ArchiveOpen
    \/ ArchiveWrite
    \/ ArchiveInterruptBetween
    \/ ArchiveClose
    \/ Report

Spec == Init /\ [][Next]_vars

-----------------------------------------------------------------------------
(* _is_blacklisted on its own: every short name against every short list *)

NameChars == {"a", "A", "b"}

PatternChars == {"a", "b", "*"}

\* basenames of up to MaxLen characters
Names == UNION {[1..n -> NameChars] : n \in 1..MaxLen}

\* patterns as _load_blacklist stores them: non-empty, lowercase
Patterns == UNION {[1..n -> PatternChars] : n \in 1..MaxLen}

Blacklists == UNION {[1..n -> Patterns] : n \in 0..MaxPatterns}

InitMatch ==
    /\ extensions = <<>>
    /\ blacklist \in Blacklists
    /\ Idle
    /\ q_name \in Names
    /\ q_result = FALSE

\* a call of _is_blacklisted(q_name)
Query ==
    /\ pc = "start"
    /\ q_result' = _is_blacklisted(q_name)
    /\ pc' = "answered"
    /\ UNCHANGED <<extensions, blacklist, stack, visited, denied,
                   files_to_backup, size_i, total_size, external_drives,
                   selected_drive, free_space, compression, reprompts,
                   archive, entries, failed, arch_i, interrupted, success,
                   log, exit_code, q_name, walk1, skipped,
                   confirm>>

NextMatch == Query

SpecMatch == InitMatch /\ [][NextMatch]_vars

-----------------------------------------------------------------------------
(* How a finished run presents itself *)

\* the last message printed
LastMsg == IF log = <<>> THEN "none" ELSE log[Len(log)]

\* The terminal outcome as the program reports it. run_backup returns None on
\* every path, so the outcome is the last message printed: a failed
\* precondition, "backup failed" (line 296) and main's "unexpected error"
\* report failure; the "cancelled" and "interrupted" messages report a
\* cancellation; "backup completed" (line 291) reports success. No message
\* and no return value of the program reports a partial success.
RunOutcome ==
    IF pc # "done" THEN "Running"
    ELSE IF LastMsg \in {MsgNoExtensions, MsgNoFiles, MsgNoDrives, MsgNoSpace,
                         MsgBackupFailed, MsgUnexpected}
         THEN "Failed"
    ELSE IF LastMsg \in {MsgCancelled, MsgCancelledByUser, MsgInterrupted}
         THEN "Cancelled"
    ELSE "Completed"

-----------------------------------------------------------------------------
(* Properties *)

\* a directory is under d when d is it or one of the directories above it
Under(e, d) == d \in Ancestors(e)

\* C1: a directory listed during the traversal whose basename is blacklisted
\* is never entered: os.walk neither lists it nor any directory beneath it,
\* and no file beneath it, at any depth, is in the candidate list.
C1_ExcludedDirNeverEntered ==
    \A d \in Dirs \ {Home} :
        _is_blacklisted(DirName(d)) =>
            /\ \A e \in Dirs : Under(e, d) => e \notin visited \cup denied
            /\ \A i \in 1..Len(files_to_backup) :
                   ~Under(files_to_backup[i].dir, d)

\* the traversal has finished with the directory T pruned, although files
\* with a listed extension lie in it and beneath it, and its sibling visited
C1_Witness ==
    /\ pc = "sizing"
    /\ _is_blacklisted(DirName("~/T"))
    /\ IsCandidate(<<"b", ".", "J">>)
    /\ "~/ab" \in visited
    /\ "~/T" \notin visited

\* C2: with a blacklist of wildcard-free patterns only, a name is excluded
\* exactly when its lowercase form equals one of the patterns.
C2_LiteralPatternsMatchExactly ==
    (pc = "answered" /\ \A i \in 1..Len(blacklist) : ~HasStar(blacklist[i]))
        => (q_result <=> InList(Lower(q_name), blacklist))

\* the run got past the capacity check of the selected drive
PassedCapacity ==
    \/ pc \in {"compression", "confirm", "archive_open", "archiving", "report"}
    \/ pc = "done" /\ (compression # "none" \/ interrupted = "compression")

\* the run ended at the capacity check
RejectedForCapacity ==
    /\ pc = "done"
    /\ LastMsg = MsgNoSpace
    /\ compression = "none"

\* C3: once a drive is selected and checked, the run is rejected for capacity
\* exactly when the estimated total is strictly greater than the free bytes
\* recorded for that drive when the drives were enumerated; otherwise it goes
\* on to the compression prompt.
C3_RejectedIffStrictlyLarger ==
    (selected_drive # 0 /\ pc # "capacity") =>
        /\ free_space = external_drives[selected_drive]
        /\ IF total_size > free_space
           THEN RejectedForCapacity
           ELSE PassedCapacity /\ ~RejectedForCapacity

\* the estimate equals the free space exactly and the run is at the
\* compression prompt
C3_Witness ==
    /\ pc = "compression"
    /\ total_size > 0
    /\ total_size = free_space

\* C4: a failure on one candidate does not end create_backup_archive: when
\* the loop has run to its end every candidate has been attempted, and the
\* entries of the archive number the candidates minus the failed ones.
C4_FileFailureDoesNotAbort ==
    MsgArchiveCreated \in Range(log) =>
        /\ arch_i = Len(files_to_backup) + 1
        /\ Len(entries) = Len(files_to_backup) - Len(failed)

\* C5: a cancellation observed during the archiving stage ends the run in a
\* Cancelled outcome, distinct from success and from failure.
C5_CancelledIsDistinct ==
    (pc = "done" /\ interrupted \in {"write", "between"})
        => RunOutcome = "Cancelled"

\* C6: when the archiving loop runs to its end and the archive is closed with
\* at least one failed candidate and at least one entry written, the run's
\* outcome is PartiallyCompleted.
C6_PartialIsNotSuccess ==
    (pc = "done" /\ success = "True" /\ total_size > 0
        /\ failed # <<>> /\ entries # <<>>)
        => RunOutcome = "PartiallyCompleted"

\* C7: the archive file exists only after the capacity check of the selected
\* drive has passed, and a run rejected for capacity has created no archive
\* and written no entry.
C7_CapacityBeforeAnyWrite ==
    /\ (archive # "absent" \/ entries # <<>>) =>
           /\ selected_drive # 0
           /\ free_space >= total_size
           /\ MsgNoSpace \notin Range(log)
    /\ MsgNoSpace \in Range(log) =>
           /\ archive = "absent"
           /\ entries = <<>>
           /\ pc = "done"

\* a run rejected for capacity, the drive untouched
C7_Witness ==
    /\ pc = "done"
    /\ LastMsg = MsgNoSpace
    /\ free_space < total_size
    /\ archive = "absent"

\* C8: with an empty extension list run_backup ends at once in failure:
\* nothing is traversed, measured, enumerated or written.
C8_NoExtensionsNoRun ==
    extensions = <<>> =>
        /\ pc \in {"start", "done"}
        /\ stack = <<>> /\ visited = {} /\ denied = {}
        /\ files_to_backup = <<>>
        /\ size_i = 0 /\ total_size = 0
        /\ external_drives = <<>> /\ selected_drive = 0
        /\ archive = "absent" /\ entries = <<>>
        /\ pc = "done" => log = <<MsgNoExtensions>> /\ RunOutcome = "Failed"

\* the run refused to start
C8_Witness ==
    /\ pc = "done"
    /\ extensions = <<>>
    /\ log = <<MsgNoExtensions>>

\* find_files_to_backup has just returned its list (line 99): run_backup is
\* at the test of line 223 or has taken its return
TraversalFinished ==
    \/ pc = "sizing" /\ size_i = 1 /\ total_size = 0
    \/ pc = "done" /\ LastMsg = MsgNoFiles

\* no directory from the home directory down to d failed to list
Reachable(d) == Ancestors(d) \cap denied = {}

\* no directory from below the home directory down to d is blacklisted
NotPruned(d) == \A a \in Ancestors(d) \ {Home} : ~_is_blacklisted(DirName(a))

\* C9: when the traversal has run to its end, every eligible file of every
\* directory that is not pruned and can be reached through listable
\* directories is in the list it returns, whichever directories were denied.
C9_DeniedDirDoesNotAbort ==
    TraversalFinished =>
        \A f \in AllFiles :
            (Reachable(f.dir) /\ NotPruned(f.dir) /\ IsCandidate(f.name))
                => InList(f, files_to_backup)

\* T could not be listed, and the file of ab, which is visited after T, is
\* a candidate
C9_Witness ==
    /\ pc = "sizing"
    /\ denied = {"~/T"}
    /\ InList(PathOf("~/ab", <<"t", ".", "j">>), files_to_backup)

\* C10: a run ends in Failed only at one of the four preconditions: no
\* extensions, no candidates, no drives, not enough space.
C10_FailedOnlyFromPreconditions ==
    RunOutcome = "Failed" =>
        LastMsg \in {MsgNoExtensions, MsgNoFiles, MsgNoDrives, MsgNoSpace}


\* C11: the answer of _is_blacklisted for a name is the answer for its
\* all-lowercase re-casing, whatever the patterns of the (lowercase)
\* blacklist: literal, trailing wildcard or embedded wildcard. Every
\* re-casing of a name has the same all-lowercase form, so any two re-casings
\* get the same answer.
C11_CaseInsensitiveInName ==
    pc = "answered" =>
        (q_result <=> IsBlacklistedIn(Lower(q_name), blacklist))

\* an upper-case name was excluded by a pattern with an embedded wildcard
C11_Witness ==
    /\ pc = "answered"
    /\ q_name = <<"A", "b", "A">>
    /\ blacklist = << <<"a", "*", "a">> >>
    /\ q_result


\* the final extension component of the basename, lowercased, is one of the
\* extensions of the list
ExtensionListed(name) ==
    \E i \in 1..Len(extensions) : Lower(Suffix(name)) = extensions[i]

\* the selection rule: no blacklisted directory on the way down from the home
\* directory, basename not blacklisted, final extension listed
Selected(f) ==
    /\ NotPruned(f.dir)
    /\ ~_is_blacklisted(f.name)
    /\ ExtensionListed(f.name)

\* no path occurs twice in the candidate list
NoDuplicates ==
    \A i, j \in 1..Len(files_to_backup) :
        files_to_backup[i] = files_to_backup[j] => i = j

\* C12, as stated: a file is in the list the traversal returns exactly when
\* the selection rule selects it, and it is there once.
C12_CandidatesAreSelectedSet ==
    TraversalFinished =>
        /\ \A f \in AllFiles : InList(f, files_to_backup) <=> Selected(f)
        /\ NoDuplicates

\* C12, amended: a file is in the list the traversal returns exactly when
\* every directory from the home directory down to its own could be listed
\* and the selection rule selects it, and it is there once.
C12_CandidatesAreListableSelectedSet ==
    TraversalFinished =>
        /\ \A f \in AllFiles :
               InList(f, files_to_backup) <=> (Reachable(f.dir) /\ Selected(f))
        /\ NoDuplicates

\* the traversal ended with the upper-case extension of b.J selected, a.j.x
\* left out for its final extension, and T/a.j selected in a listed directory
C12_Witness ==
    /\ pc = "sizing"
    /\ denied = {}
    /\ InList(PathOf("~/T/b", <<"b", ".", "J">>), files_to_backup)
    /\ ~InList(PathOf("~", <<"a", ".", "j", ".", "x">>), files_to_backup)
    /\ ~_is_blacklisted(<<"a", ".", "j", ".", "x">>)


-----------------------------------------------------------------------------
(* calculate_total_size on its own: any short list of files of the tree,    *)
(* with a record of the candidates whose stat raised                        *)

\* longest list handed to calculate_total_size
MaxFiles == 3

\* lists of distinct files of the tree
FileLists ==
    {l \in UNION {[1..n -> AllFiles] : n \in 0..MaxFiles} :
        \A i, j \in 1..Len(l) : l[i] = l[j] => i = j}

InitSize ==
    /\ extensions = <<>>
    /\ blacklist = <<>>
    /\ pc = "sizing"
    /\ stack = <<>>
    /\ visited = {}
    /\ denied = {}
    /\ files_to_backup \in FileLists
    /\ size_i = 1
    /\ total_size = 0
    /\ external_drives = <<>>
    /\ selected_drive = 0
    /\ free_space = 0
    /\ compression = "none"
    /\ reprompts = 0
    /\ archive = "absent"
    /\ entries = <<>>
    /\ failed = <<>>
    /\ arch_i = 0
    /\ interrupted = "no"
    /\ success = "None"
    /\ log = <<>>
    /\ exit_code = 0
    /\ walk1 = <<>>
    /\ skipped = {}
    /\ confirm = <<"?">>
    /\ q_name = <<>>
    /\ q_result = FALSE

\* lines 106-112, with the index of a candidate whose stat raised recorded
StatFileRecorded ==
    /\ pc = "sizing"
    /\ size_i <= Len(files_to_backup)
    /\ \E stat_ok \in BOOLEAN :
          /\ StatOne(stat_ok)
          /\ skipped' = IF stat_ok THEN skipped ELSE skipped \cup {size_i}
    /\ UNCHANGED <<extensions, blacklist, pc, stack, visited, denied,
                   files_to_backup, external_drives, selected_drive,
                   free_space, compression, reprompts, archive, entries,
                   failed, arch_i, interrupted, success, log, exit_code,
                   q_name, walk1, confirm, q_result>>

\* line 114: return total_size
SizeReturn ==
    /\ pc = "sizing"
    /\ size_i > Len(files_to_backup)
    /\ pc' = "sized"
    /\ UNCHANGED <<extensions, blacklist, stack, visited, denied,
                   files_to_backup, size_i, total_size, external_drives,
                   selected_drive, free_space, compression, reprompts,
                   archive, entries, failed, arch_i, interrupted, success,
                   log, exit_code, q_name, walk1, skipped, confirm, q_result>>

NextSize ==
    \/ StatFileRecorded
    \/ SizeReturn

SpecSize == InitSize /\ [][NextSize]_vars

RECURSIVE MeasuredSum(_)
\* the sizes of the first k candidates, those whose stat raised left out
MeasuredSum(k) ==
    IF k = 0 THEN 0
    ELSE MeasuredSum(k - 1)
         + (IF k \in skipped THEN 0 ELSE SizeOf(files_to_backup[k]))

\* C13: calculate_total_size always returns, every candidate has then been
\* tried, and the total is the sum of the sizes of exactly the candidates
\* whose stat did not raise.
C13_TotalIsSumOfMeasured ==
    /\ pc \in {"sizing", "sized"}
    /\ total_size = MeasuredSum(size_i - 1)
    /\ pc = "sized" => /\ size_i = Len(files_to_backup) + 1
                       /\ total_size = MeasuredSum(Len(files_to_backup))

\* the first of three candidates could not be measured, the other two were
C13_Witness ==
    /\ pc = "sized"
    /\ Len(files_to_backup) = 3
    /\ skipped = {1}
    /\ total_size = 3


-----------------------------------------------------------------------------
(* The archive's contents *)

RECURSIVE WrittenNames(_)
\* the names, relative to the home directory, of those of the first k
\* candidates whose write did not fail, in candidate order
WrittenNames(k) ==
    IF k = 0 THEN <<>>
    ELSE LET f == files_to_backup[k]
         IN  IF InList(f, failed)
             THEN WrittenNames(k - 1)
             ELSE Append(WrittenNames(k - 1), DirParts(f.dir) \o <<f.name>>)

\* C14: when create_backup_archive has finished, the closed archive holds
\* one entry for each candidate whose write succeeded and none for a
\* candidate that failed, each named by the candidate's path relative to
\* the home directory, in candidate order.
C14_EntriesAreTheWrittenCandidates ==
    (success = "True" /\ archive = "closed") =>
        entries = WrittenNames(Len(files_to_backup))


-----------------------------------------------------------------------------
(* find_files_to_backup called twice on one BackupManager, the tree left    *)
(* as it is between the calls                                               *)

\* variant: the second call goes on from the list of the first
FreshList_keep(old) == old

\* line 76: files_to_backup = []
FreshList(old) == <<>>

\* lines 76-80: a call of find_files_to_backup starts; a second call starts
\* after the first has returned, whose result the caller keeps
FindFilesBegin ==
    /\ pc \in {"start", "found_once"}
    /\ walk1' = IF pc = "found_once" THEN files_to_backup ELSE walk1
    /\ files_to_backup' = FreshList(files_to_backup)
    /\ stack' = <<Home>>
    /\ pc' = IF pc = "start" THEN "discovering" ELSE "discovering_again"
    /\ UNCHANGED <<extensions, blacklist, visited, denied, size_i,
                   total_size, external_drives, selected_drive, free_space,
                   compression, reprompts, archive, entries, failed, arch_i,
                   interrupted, success, log, exit_code, q_name, skipped,
                   confirm, q_result>>

\* lines 80-94 in the second call: the tree is as the first call found it,
\* so a directory can be listed now exactly when it could be listed then
WalkStepAgain ==
    /\ pc = "discovering_again"
    /\ stack # <<>>
    /\ \E listable \in BOOLEAN :
          /\ Head(stack) \in visited => listable
          /\ Head(stack) \in denied => ~listable
          /\ ListDir(listable)
    /\ UNCHANGED <<extensions, blacklist, pc, size_i, total_size,
                   external_drives, selected_drive, free_space, compression,
                   reprompts, archive, entries, failed, arch_i, interrupted,
                   success, log, exit_code, q_name, walk1, skipped,
                   confirm, q_result>>

\* line 99: return files_to_backup
FindFilesReturn ==
    /\ pc \in {"discovering", "discovering_again"}
    /\ stack = <<>>
    /\ pc' = IF pc = "discovering" THEN "found_once" ELSE "found_twice"
    /\ UNCHANGED <<extensions, blacklist, stack, visited, denied,
                   files_to_backup, size_i, total_size, external_drives,
                   selected_drive, free_space, compression, reprompts,
                   archive, entries, failed, arch_i, interrupted, success,
                   log, exit_code, q_name, walk1, skipped, confirm, q_result>>

NextTwice ==
    \/ FindFilesBegin
    \/ WalkStep
    \/ WalkStepAgain
    \/ FindFilesReturn

SpecTwice == Init /\ [][NextTwice]_vars

\* C15: a second traversal of the unmodified tree returns the same
\* candidates in the same order as the first, and no step of a traversal
\* changes the extension list or the exclusion list.
C15_TraversalIsIdempotent ==
    /\ [](pc = "found_twice" => files_to_backup = walk1)
    /\ [][extensions' = extensions /\ blacklist' = blacklist]_vars

\* both calls have returned, with candidates from three directories and a
\* directory that could not be listed
C15_Witness ==
    /\ pc = "found_twice"
    /\ Len(walk1) >= 2
    /\ denied = {"~/ab"}


-----------------------------------------------------------------------------
(* The order of the stages of run_backup *)

\* the position of a stage in run_backup
Rank(p) ==
    CASE p = "start"        -> 0
      [] p = "discovering"  -> 1
      [] p = "sizing"       -> 2
      [] p = "select_drive" -> 3
      [] p = "capacity"     -> 4
      [] p = "compression"  -> 5
      [] p = "confirm"      -> 6
      [] p = "archive_open" -> 7
      [] p = "archiving"    -> 8
      [] p = "report"       -> 9
      [] p = "done"         -> 10

\* C16: no step of a run goes back to an earlier stage; sizing starts only
\* when the walk is exhausted and the candidates never change afterwards;
\* the drives are enumerated only when every candidate has been sized and
\* the estimate never changes afterwards; the capacity check is made with a
\* drive selected; archiving is entered only with the check passed; a
\* repeated prompt stays in its stage.
C16_StagesInOrder ==
    [][ /\ Rank(pc') >= Rank(pc)
        /\ (pc = "discovering" /\ pc' = "sizing") => stack = <<>>
        /\ Rank(pc) >= Rank("sizing") => files_to_backup' = files_to_backup
        /\ (pc = "sizing" /\ pc' # "sizing" /\ interrupted' = "no")
               => size_i > Len(files_to_backup)
        /\ Rank(pc) >= Rank("select_drive") =>
               /\ total_size' = total_size
               /\ external_drives' = external_drives
        /\ pc' = "capacity" => selected_drive' \in 1..Len(external_drives)
        /\ Rank(pc) >= Rank("capacity") =>
               /\ selected_drive' = selected_drive
               /\ free_space' = free_space
        /\ Rank(pc') \in Rank("compression")..Rank("archiving")
               => ~(free_space' < total_size')
        /\ reprompts' > reprompts => pc' = pc
      ]_vars

\* a run is writing its second candidate to the second drive
C16_Witness ==
    /\ pc = "archiving"
    /\ arch_i = 2
    /\ selected_drive = 2


-----------------------------------------------------------------------------
(* Cancellation while the archive is written *)

\* a KeyboardInterrupt has been delivered during create_backup_archive's loop
CancelledWhileArchiving == interrupted \in {"write", "between"}

-----------------------------------------------------------------------------
(* The report after create_backup_archive *)

\* C18: whenever create_backup_archive has returned True, run_backup ends
\* with the completion report as its last message and raises nothing,
\* whatever the estimated total size, zero included.
C18_SuccessIsAlwaysReported ==
    (pc = "done" /\ success = "True") =>
        /\ LastMsg = MsgBackupDone
        /\ exit_code = 0


-----------------------------------------------------------------------------
(* Confirmation before anything is written *)

\* line 282: the answers that start the backup, as typed after strip() and
\* lower()
AcceptedAnswers ==
    { <<"y">>, <<"y", "e", "s">>, <<"cyr_de">>, <<"cyr_de", "cyr_a">> }

\* the messages of the returns of run_backup before create_backup_archive:
\* lines 212, 224, 237, 257, 262, 283
EarlyReturnMsgs ==
    {MsgNoExtensions, MsgNoFiles, MsgNoDrives, MsgCancelled, MsgNoSpace}

\* C19: the archive file exists or holds an entry only when the answer to
\* the confirmation prompt was one of the accepted ones, and a run that has
\* ended on a declined confirmation, a rejected drive answer, a failed
\* precondition or a failed capacity check has created no archive.
C19_NothingWrittenUnconfirmed ==
    /\ (archive # "absent" \/ entries # <<>>) => confirm \in AcceptedAnswers
    /\ (pc = "done" /\ LastMsg \in EarlyReturnMsgs) =>
           /\ archive = "absent"
           /\ entries = <<>>

\* the answer " Y " was given and the archive file has been created
C19_Witness ==
    /\ archive = "open"
    /\ confirm = <<"y">>
    /\ entries = <<>>


-----------------------------------------------------------------------------
(* Termination *)

\* the run goes on while a step is possible: the program does not block but
\* at a prompt, and the user answers every prompt, with an answer the prompt
\* accepts after at most MaxReprompts rejected ones
SpecLive == Init /\ [][Next]_vars /\ WF_vars(Next)

\* C20: every run ends, and create_backup_archive is never running without
\* a drive selected from the list, the capacity check passed and a
\* compression method chosen.
C20_RunsEndAndArchivePrepared ==
    /\ <>(pc = "done")
    /\ [](pc \in {"archive_open", "archiving"} =>
             /\ selected_drive \in 1..Len(external_drives)
             /\ free_space = external_drives[selected_drive]
             /\ ~(free_space < total_size)
             /\ compression \in {"ZIP_STORED", "ZIP_DEFLATED", "ZIP_LZMA"})

\* a run has ended after a rejected compression answer was followed by an
\* accepted one and the archive was written
C20_Witness ==
    /\ pc = "done"
    /\ success = "True"
    /\ compression = "ZIP_LZMA"
    /\ LastMsg = MsgBackupDone

====
